---- MODULE Spec2Model ----
(***************************************************************************)
(* Model of the multi-tenant SaaS backend: the user routes                 *)
(* (backend/src/routes/users.routes.js), the project routes                *)
(* (projects.routes.js) and the tenantGuard middleware.                    *)
(*                                                                         *)
(* The database is three tables (tenants, users, projects) plus the        *)
(* audit_logs table.  A request is an actor's token, a route and its       *)
(* parameters; `last` holds the most recent request and its response.      *)
(* Express answers a method and path with the first matching route whose   *)
(* handler ends the response, so the routes modelled are the               *)
(* first-registered ones.                                                  *)
(***************************************************************************)
EXTENDS Integers, Sequences, FiniteSets, TLC

\* Number of requests served one after another under Spec.
MaxRequests == 2

\* Number of creation requests in flight together under SpecRace.
MaxInflight == 2

\* SQL NULL, and JavaScript null / undefined for a tenant id.
None == "none"

VARIABLES
    tenants,    \* tenants table: tenant id -> [max_users, max_projects]
    users,      \* users table: set of rows
    projects,   \* projects table: set of rows
    auditLogs,  \* audit_logs table: sequence of entries
    nextId,     \* number of uuids drawn so far
    nreq,       \* number of requests served so far (also the clock of NOW())
    last,       \* the last request served and its response
    inflight    \* SpecRace: slot -> the creation request running in it

vars == <<tenants, users, projects, auditLogs, nextId, nreq, last, inflight>>

-----------------------------------------------------------------------------
(* Seed data and tokens *)

TenantIds == {"T1", "T2"}

\* The tenants table.  T1 has room for one more user and one more project,
\* T2 is at both ceilings.
SeedTenants ==
    [t \in TenantIds |->
        IF t = "T1" THEN [max_users |-> 3, max_projects |-> 3]
                    ELSE [max_users |-> 1, max_projects |-> 1]]

User(id, tenant, role) ==
    [id |-> id, tenant_id |-> tenant, full_name |-> "A", role |-> role,
     is_active |-> TRUE]

SeedUsers ==
    { User("sa", None, "super_admin"),
      User("a1", "T1", "tenant_admin"),
      User("u1", "T1", "user"),
      User("a2", "T2", "tenant_admin") }

Project(id, tenant, creator, at) ==
    [id |-> id, tenant_id |-> tenant, name |-> "A", status |-> "active",
     created_by |-> creator, updated_at |-> at]

SeedProjects ==
    { Project("p1", "T1", "u1", 0),
      Project("p3", "T1", "a1", 0),
      Project("p2", "T2", "a2", 0) }

\* The claims of the tokens in circulation: {userId, tenantId, role}.
\* x0 is a token of a tenant_admin that carries no tenant id.
Token(userId, tenantId, role) ==
    [userId |-> userId, tenantId |-> tenantId, role |-> role]

Actors ==
    { Token("sa", None, "super_admin"),
      Token("a1", "T1", "tenant_admin"),
      Token("u1", "T1", "user"),
      Token("a2", "T2", "tenant_admin"),
      Token("x0", None, "tenant_admin") }

\* uuidv4(): the k-th fresh id.
uuidv4(k) == "n" \o ToString(k)

-----------------------------------------------------------------------------
(* SQL and JavaScript helpers *)

\* col = $n in a WHERE clause: never true when either side is NULL.
SqlEq(col, param) == col # None /\ param # None /\ col = param

\* COALESCE($n, col) with $n bound to body[field] (undefined binds NULL).
Coalesce(body, field, old) ==
    IF field \in DOMAIN body THEN body[field] ELSE old

EmptyBody == [f \in {} |-> TRUE]

\* UsersOfTenant without the WHERE tenant_id=$1 filter.
UsersOfTenant_AnyTenant(tenantId) == users

UsersOfTenant(tenantId) == {u \in users : SqlEq(u.tenant_id, tenantId)}

ProjectsOfTenant(tenantId) == {p \in projects : SqlEq(p.tenant_id, tenantId)}

TenantRows(tenantId) == {t \in DOMAIN tenants : SqlEq(t, tenantId)}

-----------------------------------------------------------------------------
(* Outcome of a request: the response and the tables as the request leaves   *)
(* them.  sql is the set of values bound to a tenant_id parameter, read the  *)
(* ids of the rows its SELECTs matched, data the rows sent in the response.  *)
(* threw marks a promise rejected in a handler without try/catch (status 0: *)
(* the handler sends no response).                                          *)

Res(status, message) ==
    [status |-> status, message |-> message, threw |-> FALSE,
     users |-> users, projects |-> projects, audit |-> auditLogs,
     ids |-> nextId, sql |-> {}, read |-> {}, data |-> {}, total |-> 0]

Ids(rows) == {r.id : r \in rows}

\* NOW() while the request runs.
Now == nreq + 1

-----------------------------------------------------------------------------
(* Middleware *)

\* auth: verifies the token and copies its claims to the request.
auth(token) ==
    [user |-> [userId |-> token.userId, role |-> token.role,
               tenantId |-> token.tenantId],
     tenantId |-> token.tenantId]

\* requireRole(role): passes the request on iff the actor has that role.
requireRole(role, req) == req.user.role = role

\* tenantGuard passing every request on.
tenantGuard_PassAll(req) == TRUE

\* tenantGuard: passes the request on iff the actor is super_admin or the
\* request carries a tenant id.
tenantGuard(req) == req.user.role = "super_admin" \/ req.tenantId # None

TenantAccessDenied == Res(403, "Tenant access denied")

RoleDenied == Res(403, "Forbidden")

\* auditLog(entry): appends the entry to audit_logs.
auditLog(log, tenantId, userId, action, entityType, entityId) ==
    Append(log, [tenantId |-> tenantId, userId |-> userId, action |-> action,
                 entityType |-> entityType, entityId |-> entityId])

-----------------------------------------------------------------------------
(* users.routes.js: POST /tenants/:tenantId/users *)

\* CrossTenantPost without the comparison of the path with the token.
CrossTenantPost_Unchecked(req, tenantId) == FALSE

CrossTenantPost(req, tenantId) == tenantId # req.tenantId

\* UserLimitReached letting one row past the ceiling.
UserLimitReached_OffByOne(count, max) == count > max

UserLimitReached(count, max) == count >= max

InsertUser(req, body, r) ==
    LET userId == uuidv4(r.ids + 1)
        row == [id |-> userId, tenant_id |-> req.tenantId,
                full_name |-> Coalesce(body, "fullName", None),
                role |-> Coalesce(body, "role", "user"),
                is_active |-> TRUE]
    IN  [r EXCEPT !.users = @ \cup {row}, !.ids = @ + 1]

AuditCreateUser(req, r) ==
    [r EXCEPT !.audit = auditLog(@, req.tenantId, req.user.userId,
                                 "CREATE_USER", "user", uuidv4(r.ids))]

AddUser(req, tenantId, body) ==
    IF CrossTenantPost(req, tenantId)
    THEN Res(403, "Cross-tenant access denied")
    ELSE LET countRes == UsersOfTenant(req.tenantId)
             tenantRes == TenantRows(req.tenantId)
             seen == [Res(0, "") EXCEPT !.sql = {req.tenantId},
                                        !.read = Ids(countRes)]
         IN  IF tenantRes = {}
             THEN [seen EXCEPT !.threw = TRUE, !.message = "TypeError"]
             ELSE IF UserLimitReached(Cardinality(countRes),
                        tenants[CHOOSE t \in tenantRes : TRUE].max_users)
             THEN [seen EXCEPT !.status = 403,
                               !.message = "Subscription limit reached"]
             ELSE [AuditCreateUser(req, InsertUser(req, body, seen))
                      EXCEPT !.status = 201, !.message = "User created"]

AddUserRoute(token, tenantId, body) ==
    LET req == auth(token)
    IN  IF ~requireRole("tenant_admin", req) THEN RoleDenied
        ELSE IF ~tenantGuard(req) THEN TenantAccessDenied
        ELSE AddUser(req, tenantId, body)

-----------------------------------------------------------------------------
(* users.routes.js: GET /tenants/:tenantId/users *)

CrossTenantList(req, tenantId) ==
    tenantId # req.tenantId /\ req.user.role # "super_admin"

UserColumns(u) ==
    [id |-> u.id, full_name |-> u.full_name, role |-> u.role,
     is_active |-> u.is_active]

ListUsers(req, tenantId) ==
    IF CrossTenantList(req, tenantId)
    THEN Res(403, "Forbidden")
    ELSE LET rows == UsersOfTenant(req.tenantId)
         IN  [Res(200, "") EXCEPT !.sql = {req.tenantId}, !.read = Ids(rows),
                                  !.data = {UserColumns(u) : u \in rows}]

ListUsersRoute(token, tenantId) ==
    LET req == auth(token)
    IN  IF ~tenantGuard(req) THEN TenantAccessDenied
        ELSE ListUsers(req, tenantId)

-----------------------------------------------------------------------------
(* users.routes.js: PUT /users/:userId *)

UpdateUserForbidden(req, target) ==
    req.user.role # "tenant_admin" /\ req.user.userId # target.id

UpdateUserRow(u, body) ==
    [u EXCEPT !.full_name = Coalesce(body, "fullName", @),
              !.role = Coalesce(body, "role", @),
              !.is_active = Coalesce(body, "isActive", @)]

UpdateUser(req, userId, body) ==
    LET userRes == {u \in users : SqlEq(u.id, userId)}
    IN  IF userRes = {}
        THEN Res(404, "User not found")
        ELSE LET target == CHOOSE u \in userRes : TRUE
                 seen == [Res(0, "") EXCEPT !.read = {target.id}]
             IN  IF UpdateUserForbidden(req, target)
                 THEN [seen EXCEPT !.status = 403, !.message = "Forbidden"]
                 ELSE [seen EXCEPT
                        !.users = {IF SqlEq(u.id, target.id)
                                   THEN UpdateUserRow(u, body) ELSE u
                                   : u \in users},
                        !.audit = auditLog(@, req.tenantId, req.user.userId,
                                           "UPDATE_USER", "user", target.id),
                        !.status = 200, !.message = "User updated"]

UpdateUserRoute(token, userId, body) ==
    LET req == auth(token)
    IN  IF ~tenantGuard(req) THEN TenantAccessDenied
        ELSE UpdateUser(req, userId, body)

-----------------------------------------------------------------------------
(* users.routes.js: DELETE /users/:userId *)

\* SelfDeletion without the comparison of the target with the actor.
SelfDeletion_Unchecked(req, userId) == FALSE

SelfDeletion(req, userId) == req.user.userId = userId

DeleteUserRows(req, userId) ==
    {u \in users : ~(SqlEq(u.id, userId) /\ SqlEq(u.tenant_id, req.tenantId))}

DeleteUser(req, userId) ==
    IF SelfDeletion(req, userId)
    THEN Res(403, "Cannot delete yourself")
    ELSE [Res(200, "User deleted") EXCEPT
            !.sql = {req.tenantId},
            !.users = DeleteUserRows(req, userId),
            !.audit = auditLog(@, req.tenantId, req.user.userId,
                               "DELETE_USER", "user", userId)]

DeleteUserRoute(token, userId) ==
    LET req == auth(token)
    IN  IF ~requireRole("tenant_admin", req) THEN RoleDenied
        ELSE IF ~tenantGuard(req) THEN TenantAccessDenied
        ELSE DeleteUser(req, userId)

-----------------------------------------------------------------------------
(* projects.routes.js: POST / (create project) *)

ProjectLimitReached(count, max) == count >= max

InsertProject(req, body, r) ==
    LET projectId == uuidv4(r.ids + 1)
        row == [id |-> projectId, tenant_id |-> req.tenantId,
                name |-> Coalesce(body, "name", None),
                status |-> Coalesce(body, "status", "active"),
                created_by |-> req.user.userId, updated_at |-> Now]
    IN  [r EXCEPT !.projects = @ \cup {row}, !.ids = @ + 1]

AuditCreateProject(req, r) ==
    [r EXCEPT !.audit = auditLog(@, req.tenantId, req.user.userId,
                                 "CREATE_PROJECT", "project", uuidv4(r.ids))]

CreateProject(req, body) ==
    LET countRes == ProjectsOfTenant(req.tenantId)
        tenantRes == TenantRows(req.tenantId)
        seen == [Res(0, "") EXCEPT !.sql = {req.tenantId},
                                   !.read = Ids(countRes)]
    IN  IF tenantRes = {}
        THEN [seen EXCEPT !.threw = TRUE, !.message = "TypeError"]
        ELSE IF ProjectLimitReached(Cardinality(countRes),
                   tenants[CHOOSE t \in tenantRes : TRUE].max_projects)
        THEN [seen EXCEPT !.status = 403, !.message = "Project limit reached"]
        ELSE [AuditCreateProject(req, InsertProject(req, body, seen))
                 EXCEPT !.status = 201, !.message = "Project created"]

CreateProjectRoute(token, body) ==
    LET req == auth(token)
    IN  IF ~tenantGuard(req) THEN TenantAccessDenied
        ELSE CreateProject(req, body)

-----------------------------------------------------------------------------
(* projects.routes.js: GET /projects and GET /:projectId *)

\* FROM projects p JOIN users u ON u.id = p.created_by WHERE p.tenant_id = $1
JoinedProjects(tenantId) ==
    {p \in ProjectsOfTenant(tenantId) :
        \E u \in users : SqlEq(u.id, p.created_by)}

Creator(p) == CHOOSE u \in users : SqlEq(u.id, p.created_by)

ListColumns(p) ==
    [id |-> p.id, name |-> p.name, status |-> p.status,
     creator_id |-> Creator(p).id, creator_name |-> Creator(p).full_name]

ListProjects(req, query) ==
    LET rows == {p \in JoinedProjects(req.tenantId) :
                   "status" \in DOMAIN query => SqlEq(p.status, query.status)}
    IN  [Res(200, "") EXCEPT
            !.sql = {req.tenantId},
            !.read = Ids(rows) \cup Ids(ProjectsOfTenant(req.tenantId)),
            !.data = {ListColumns(p) : p \in rows},
            !.total = Cardinality(ProjectsOfTenant(req.tenantId))]

ListProjectsRoute(token, query) ==
    LET req == auth(token)
    IN  IF ~tenantGuard(req) THEN TenantAccessDenied
        ELSE ListProjects(req, query)

SingleColumns(p) ==
    [id |-> p.id, name |-> p.name, status |-> p.status,
     created_by |-> Creator(p).full_name]

GetProject(req, projectId) ==
    LET projectRes == {p \in JoinedProjects(req.tenantId) :
                         SqlEq(p.id, projectId)}
    IN  IF projectRes = {}
        THEN [Res(404, "Project not found") EXCEPT !.sql = {req.tenantId}]
        ELSE [Res(200, "") EXCEPT
                !.sql = {req.tenantId}, !.read = Ids(projectRes),
                !.data = {SingleColumns(p) : p \in projectRes}]

GetProjectRoute(token, projectId) ==
    LET req == auth(token)
    IN  IF ~tenantGuard(req) THEN TenantAccessDenied
        ELSE GetProject(req, projectId)

-----------------------------------------------------------------------------
(* projects.routes.js: PUT /projects/:projectId, DELETE /projects/:projectId *)

\* SELECT * FROM projects WHERE id=$1 AND tenant_id=$2
SelectProject(req, projectId) ==
    {p \in projects : SqlEq(p.id, projectId) /\ SqlEq(p.tenant_id, req.tenantId)}

\* ProjectForbidden without the creator's exemption.
ProjectForbidden_AdminOnly(req, project) == req.user.role # "tenant_admin"

ProjectForbidden(req, project) ==
    req.user.role # "tenant_admin" /\ project.created_by # req.user.userId

UpdateProjectRow(p, body) ==
    [p EXCEPT !.name = Coalesce(body, "name", @),
              !.status = Coalesce(body, "status", @),
              !.updated_at = Now]

UpdateProject(req, projectId, body) ==
    LET projectRes == SelectProject(req, projectId)
    IN  IF projectRes = {}
        THEN [Res(404, "Project not found") EXCEPT !.sql = {req.tenantId}]
        ELSE LET project == CHOOSE p \in projectRes : TRUE
                 seen == [Res(0, "") EXCEPT !.sql = {req.tenantId},
                                            !.read = {project.id}]
             IN  IF ProjectForbidden(req, project)
                 THEN [seen EXCEPT !.status = 403, !.message = "Forbidden"]
                 ELSE [seen EXCEPT
                        !.projects = {IF SqlEq(p.id, project.id)
                                      THEN UpdateProjectRow(p, body) ELSE p
                                      : p \in projects},
                        !.audit = auditLog(@, req.tenantId, req.user.userId,
                                     "UPDATE_PROJECT", "project", project.id),
                        !.status = 200,
                        !.message = "Project updated successfully"]

UpdateProjectRoute(token, projectId, body) ==
    LET req == auth(token)
    IN  IF ~tenantGuard(req) THEN TenantAccessDenied
        ELSE UpdateProject(req, projectId, body)

DeleteProject(req, projectId) ==
    LET projectRes == SelectProject(req, projectId)
    IN  IF projectRes = {}
        THEN [Res(404, "Project not found") EXCEPT !.sql = {req.tenantId}]
        ELSE LET project == CHOOSE p \in projectRes : TRUE
                 seen == [Res(0, "") EXCEPT !.sql = {req.tenantId},
                                            !.read = {project.id}]
             IN  IF ProjectForbidden(req, project)
                 THEN [seen EXCEPT !.status = 403, !.message = "Forbidden"]
                 ELSE [seen EXCEPT
                        !.projects = {p \in projects : ~SqlEq(p.id, project.id)},
                        !.audit = auditLog(@, req.tenantId, req.user.userId,
                                     "DELETE_PROJECT", "project", project.id),
                        !.status = 200,
                        !.message = "Project deleted successfully"]

DeleteProjectRoute(token, projectId) ==
    LET req == auth(token)
    IN  IF ~tenantGuard(req) THEN TenantAccessDenied
        ELSE DeleteProject(req, projectId)

-----------------------------------------------------------------------------
(* Requests *)

NewUserBodies == {[fullName |-> "A"]}

UserUpdates ==
    {[fullName |-> "B"], [role |-> "tenant_admin", isActive |-> FALSE]}

NewProjectBodies == {[name |-> "A"]}

ProjectUpdates == {[name |-> "B", status |-> "archived"], EmptyBody}

ProjectQueries == {EmptyBody, [status |-> "active"]}

\* Ids a client may name: those of the rows and its own; for a project also
\* one of no row.
UserTargets(token) == Ids(users) \cup {token.userId}

ProjectTargets == Ids(projects) \cup {"zz"}

NoRequest ==
    [op |-> "none", token |-> Token(None, None, None), tenantId |-> None,
     target |-> None, body |-> EmptyBody, status |-> 0, message |-> "",
     threw |-> FALSE, sql |-> {}, read |-> {}, data |-> {}, total |-> 0]

Init ==
    /\ tenants = SeedTenants
    /\ users = SeedUsers
    /\ projects = SeedProjects
    /\ auditLogs = <<>>
    /\ nextId = 0
    /\ nreq = 0
    /\ last = NoRequest
    /\ inflight = [s \in 1..MaxInflight |-> [pc |-> "idle"]]

\* One request served from its first middleware to its response.
Serve(op, token, tenantId, target, body, r) ==
    /\ nreq < MaxRequests
    /\ nreq' = nreq + 1
    /\ users' = r.users
    /\ projects' = r.projects
    /\ auditLogs' = r.audit
    /\ nextId' = r.ids
    /\ last' = [op |-> op, token |-> token, tenantId |-> tenantId,
                target |-> target, body |-> body, status |-> r.status,
                message |-> r.message, threw |-> r.threw, sql |-> r.sql,
                read |-> r.read, data |-> r.data, total |-> r.total]
    /\ UNCHANGED <<tenants, inflight>>

PostTenantUsers ==
    \E token \in Actors, tenantId \in TenantIds, body \in NewUserBodies :
        Serve("POST_users", token, tenantId, None, body,
              AddUserRoute(token, tenantId, body))

GetTenantUsers ==
    \E token \in Actors, tenantId \in TenantIds :
        Serve("GET_users", token, tenantId, None, EmptyBody,
              ListUsersRoute(token, tenantId))

PutUser ==
    \E token \in Actors, body \in UserUpdates :
        \E userId \in UserTargets(token) :
            Serve("PUT_user", token, None, userId, body,
                  UpdateUserRoute(token, userId, body))

DeleteUserReq ==
    \E token \in Actors :
        \E userId \in UserTargets(token) :
            Serve("DELETE_user", token, None, userId, EmptyBody,
                  DeleteUserRoute(token, userId))

PostProject ==
    \E token \in Actors, body \in NewProjectBodies :
        Serve("POST_project", token, None, None, body,
              CreateProjectRoute(token, body))

GetProjects ==
    \E token \in Actors, query \in ProjectQueries :
        Serve("GET_projects", token, None, None, query,
              ListProjectsRoute(token, query))

GetProjectReq ==
    \E token \in Actors, projectId \in ProjectTargets :
        Serve("GET_project", token, None, projectId, EmptyBody,
              GetProjectRoute(token, projectId))

PutProject ==
    \E token \in Actors, projectId \in ProjectTargets, body \in ProjectUpdates :
        Serve("PUT_project", token, None, projectId, body,
              UpdateProjectRoute(token, projectId, body))

DeleteProjectReq ==
    \E token \in Actors, projectId \in ProjectTargets :
        Serve("DELETE_project", token, None, projectId, EmptyBody,
              DeleteProjectRoute(token, projectId))

Next ==
    \/ PutUser
    \/ DeleteUserReq
    \/ PostTenantUsers
    \/ GetTenantUsers
    \/ PostProject
    \/ GetProjects
    \/ GetProjectReq
    \/ PutProject
    \/ DeleteProjectReq

Spec == Init /\ [][Next]_vars

-----------------------------------------------------------------------------
(* Creation requests running together: every await of the two creation      *)
(* handlers is a step, and the steps of different requests interleave.      *)

Slots == 1..MaxInflight

Running(s, kind, pc) == inflight[s].pc = pc /\ inflight[s].kind = kind

Goto(s, pc) == inflight' = [inflight EXCEPT ![s].pc = pc]

Finish(s, status, message) ==
    inflight' = [inflight EXCEPT ![s].pc = "done", ![s].status = status,
                                 ![s].message = message]

Begin(s, kind, token, r) ==
    inflight' = [inflight EXCEPT ![s] =
        [pc |-> IF r.status = 0 THEN "count" ELSE "done", kind |-> kind,
         req |-> auth(token), count |-> 0, id |-> None,
         status |-> r.status, message |-> r.message]]

\* The middleware chain and the checks that precede the first query.
AddUserStart(s) ==
    /\ inflight[s].pc = "idle"
    /\ \E token \in Actors, tenantId \in TenantIds :
        LET req == auth(token)
        IN  Begin(s, "user", token,
                  IF ~requireRole("tenant_admin", req) THEN RoleDenied
                  ELSE IF ~tenantGuard(req) THEN TenantAccessDenied
                  ELSE IF CrossTenantPost(req, tenantId)
                       THEN Res(403, "Cross-tenant access denied")
                  ELSE Res(0, ""))
    /\ UNCHANGED <<tenants, users, projects, auditLogs, nextId, nreq, last>>

\* await pool.query("SELECT COUNT(*) FROM users WHERE tenant_id=$1")
AddUserCount(s) ==
    /\ Running(s, "user", "count")
    /\ inflight' = [inflight EXCEPT
          ![s].count = Cardinality(UsersOfTenant(inflight[s].req.tenantId)),
          ![s].pc = "limit"]
    /\ UNCHANGED <<tenants, users, projects, auditLogs, nextId, nreq, last>>

\* await pool.query("SELECT max_users FROM tenants WHERE id=$1"), then the check
AddUserLimit(s) ==
    /\ Running(s, "user", "limit")
    /\ LET tenantRes == TenantRows(inflight[s].req.tenantId)
       IN  IF tenantRes = {} THEN Finish(s, 0, "TypeError")
           ELSE IF UserLimitReached(inflight[s].count,
                      tenants[CHOOSE t \in tenantRes : TRUE].max_users)
           THEN Finish(s, 403, "Subscription limit reached")
           ELSE Goto(s, "insert")
    /\ UNCHANGED <<tenants, users, projects, auditLogs, nextId, nreq, last>>

\* await pool.query("INSERT INTO users ...")
AddUserInsert(s) ==
    /\ Running(s, "user", "insert")
    /\ LET r == InsertUser(inflight[s].req, [fullName |-> "A"], Res(0, ""))
       IN  /\ users' = r.users
           /\ nextId' = r.ids
           /\ inflight' = [inflight EXCEPT ![s].id = uuidv4(r.ids),
                                           ![s].pc = "audit"]
    /\ UNCHANGED <<tenants, projects, auditLogs, nreq, last>>

\* await auditLog(...), then res.status(201)
AddUserAudit(s) ==
    /\ Running(s, "user", "audit")
    /\ auditLogs' = auditLog(auditLogs, inflight[s].req.tenantId,
                             inflight[s].req.user.userId, "CREATE_USER",
                             "user", inflight[s].id)
    /\ Finish(s, 201, "User created")
    /\ UNCHANGED <<tenants, users, projects, nextId, nreq, last>>

CreateProjectStart(s) ==
    /\ inflight[s].pc = "idle"
    /\ \E token \in Actors :
        Begin(s, "project", token,
              IF ~tenantGuard(auth(token)) THEN TenantAccessDenied
              ELSE Res(0, ""))
    /\ UNCHANGED <<tenants, users, projects, auditLogs, nextId, nreq, last>>

\* await pool.query("SELECT COUNT(*) FROM projects WHERE tenant_id=$1")
CreateProjectCount(s) ==
    /\ Running(s, "project", "count")
    /\ inflight' = [inflight EXCEPT
          ![s].count = Cardinality(ProjectsOfTenant(inflight[s].req.tenantId)),
          ![s].pc = "limit"]
    /\ UNCHANGED <<tenants, users, projects, auditLogs, nextId, nreq, last>>

\* await pool.query("SELECT max_projects FROM tenants WHERE id=$1"), then the check
CreateProjectLimit(s) ==
    /\ Running(s, "project", "limit")
    /\ LET tenantRes == TenantRows(inflight[s].req.tenantId)
       IN  IF tenantRes = {} THEN Finish(s, 0, "TypeError")
           ELSE IF ProjectLimitReached(inflight[s].count,
                      tenants[CHOOSE t \in tenantRes : TRUE].max_projects)
           THEN Finish(s, 403, "Project limit reached")
           ELSE Goto(s, "insert")
    /\ UNCHANGED <<tenants, users, projects, auditLogs, nextId, nreq, last>>

\* await pool.query("INSERT INTO projects ...")
CreateProjectInsert(s) ==
    /\ Running(s, "project", "insert")
    /\ LET r == InsertProject(inflight[s].req, [name |-> "A"], Res(0, ""))
       IN  /\ projects' = r.projects
           /\ nextId' = r.ids
           /\ inflight' = [inflight EXCEPT ![s].id = uuidv4(r.ids),
                                           ![s].pc = "audit"]
    /\ UNCHANGED <<tenants, users, auditLogs, nreq, last>>

\* await auditLog(...), then res.status(201)
CreateProjectAudit(s) ==
    /\ Running(s, "project", "audit")
    /\ auditLogs' = auditLog(auditLogs, inflight[s].req.tenantId,
                             inflight[s].req.user.userId, "CREATE_PROJECT",
                             "project", inflight[s].id)
    /\ Finish(s, 201, "Project created")
    /\ UNCHANGED <<tenants, users, projects, nextId, nreq, last>>

NextRace ==
    \E s \in Slots :
        \/ AddUserStart(s)
        \/ AddUserCount(s)
        \/ AddUserLimit(s)
        \/ AddUserInsert(s)
        \/ AddUserAudit(s)
        \/ CreateProjectStart(s)
        \/ CreateProjectCount(s)
        \/ CreateProjectLimit(s)
        \/ CreateProjectInsert(s)
        \/ CreateProjectAudit(s)

SpecRace == Init /\ [][NextRace]_vars

-----------------------------------------------------------------------------
(* The audit append as a call of its own: a handler that has committed its  *)
(* row change awaits auditLog(...) and goes on only when that promise       *)
(* settles.  The audit log is an external collaborator: its promise may     *)
(* resolve, reject, or stay pending.                                        *)

\* The request from its first middleware to its call of auditLog.  caught
\* tells whether the handler body is inside try/catch.
AwaitAudit(s, caught, r) ==
    inflight' = [inflight EXCEPT ![s] =
        IF r.status \in {200, 201}
        THEN [pc |-> "audit", caught |-> caught,
              entry |-> <<r.audit[Len(r.audit)]>>, success |-> r.status,
              committed |-> TRUE, status |-> 0]
        ELSE [pc |-> "done", caught |-> caught, entry |-> <<>>,
              success |-> 0, committed |-> FALSE, status |-> r.status]]

AddUserCommit(s) ==
    /\ inflight[s].pc = "idle"
    /\ \E token \in Actors, tenantId \in TenantIds :
        LET r == AddUserRoute(token, tenantId, [fullName |-> "A"])
        IN  /\ users' = r.users
            /\ nextId' = r.ids
            /\ AwaitAudit(s, FALSE, r)
    /\ UNCHANGED <<tenants, projects, auditLogs, nreq, last>>

DeleteProjectCommit(s) ==
    /\ inflight[s].pc = "idle"
    /\ \E token \in Actors, projectId \in ProjectTargets :
        LET r == DeleteProjectRoute(token, projectId)
        IN  /\ projects' = r.projects
            /\ AwaitAudit(s, TRUE, r)
    /\ UNCHANGED <<tenants, users, auditLogs, nextId, nreq, last>>

\* The append completes: the entry is in audit_logs, the promise resolves.
AuditResolve(s) ==
    /\ inflight[s].pc = "audit"
    /\ auditLogs' = auditLogs \o inflight[s].entry
    /\ inflight' = [inflight EXCEPT ![s].pc = "resolved"]
    /\ UNCHANGED <<tenants, users, projects, nextId, nreq, last>>

\* The append fails: no entry, the promise rejects.
AuditReject(s) ==
    /\ inflight[s].pc = "audit"
    /\ inflight' = [inflight EXCEPT ![s].pc = "rejected"]
    /\ UNCHANGED <<tenants, users, projects, auditLogs, nextId, nreq, last>>

\* The handler resumes after await auditLog(...) and sends its response.
RespondAfterAudit(s) ==
    /\ inflight[s].pc = "resolved"
    /\ inflight' = [inflight EXCEPT ![s].pc = "done",
                                    ![s].status = inflight[s].success]
    /\ UNCHANGED <<tenants, users, projects, auditLogs, nextId, nreq, last>>

\* The await throws: catch (err) answers 500; without try/catch the
\* handler's promise rejects and no response is sent (status 0).
RejectedAfterAudit(s) ==
    /\ inflight[s].pc = "rejected"
    /\ inflight' = [inflight EXCEPT
          ![s].pc = "done",
          ![s].status = IF inflight[s].caught THEN 500 ELSE 0]
    /\ UNCHANGED <<tenants, users, projects, auditLogs, nextId, nreq, last>>

NextAudit ==
    \E s \in Slots :
        \/ AddUserCommit(s)
        \/ DeleteProjectCommit(s)
        \/ AuditResolve(s)
        \/ AuditReject(s)
        \/ RespondAfterAudit(s)
        \/ RejectedAfterAudit(s)

\* The event loop runs the continuation of every settled promise; nothing
\* makes a request arrive or the audit log answer.
SpecAudit ==
    /\ Init
    /\ [][NextAudit]_vars
    /\ \A s \in Slots : WF_vars(RespondAfterAudit(s))
    /\ \A s \in Slots : WF_vars(RejectedAfterAudit(s))

-----------------------------------------------------------------------------
(* Reads compared across database states: inflight[1] keeps one read that   *)
(* was answered, with its response and the tables as they were; the writes  *)
(* that follow are the routes above, served without recording `last`.       *)

\* What the client receives.
Response(r) ==
    [status |-> r.status, message |-> r.message, data |-> r.data,
     total |-> r.total]

\* The route that answers the read request q on the current tables.
ReadRoute(q) ==
    CASE q.op = "GET_users" -> ListUsersRoute(q.token, q.tenantId)
      [] q.op = "GET_projects" -> ListProjectsRoute(q.token, q.body)
      [] q.op = "GET_project" -> GetProjectRoute(q.token, q.target)

Remember(q) ==
    /\ inflight[1].pc = "idle"
    /\ nreq < MaxRequests
    /\ nreq' = nreq + 1
    /\ inflight' = [inflight EXCEPT ![1] =
          [pc |-> "read", q |-> q, response |-> Response(ReadRoute(q)),
           users |-> users, projects |-> projects]]
    /\ UNCHANGED <<tenants, users, projects, auditLogs, nextId, last>>

ReadRequest(op, token, tenantId, target, body) ==
    [op |-> op, token |-> token, tenantId |-> tenantId, target |-> target,
     body |-> body]

ReadTenantUsers ==
    \E token \in Actors, tenantId \in TenantIds :
        Remember(ReadRequest("GET_users", token, tenantId, None, EmptyBody))

ReadProjects ==
    \E token \in Actors, query \in ProjectQueries :
        Remember(ReadRequest("GET_projects", token, None, None, query))

ReadProject ==
    \E token \in Actors, projectId \in ProjectTargets :
        Remember(ReadRequest("GET_project", token, None, projectId, EmptyBody))

\* One writing request served from its first middleware to its response.
Write(r) ==
    /\ nreq < MaxRequests
    /\ nreq' = nreq + 1
    /\ users' = r.users
    /\ projects' = r.projects
    /\ auditLogs' = r.audit
    /\ nextId' = r.ids
    /\ UNCHANGED <<tenants, last, inflight>>

WriteAddUser ==
    \E token \in Actors, tenantId \in TenantIds, body \in NewUserBodies :
        Write(AddUserRoute(token, tenantId, body))

WriteUpdateUser ==
    \E token \in Actors, body \in UserUpdates :
        \E userId \in UserTargets(token) :
            Write(UpdateUserRoute(token, userId, body))

WriteDeleteUser ==
    \E token \in Actors :
        \E userId \in UserTargets(token) :
            Write(DeleteUserRoute(token, userId))

WriteCreateProject ==
    \E token \in Actors, body \in NewProjectBodies :
        Write(CreateProjectRoute(token, body))

WriteUpdateProject ==
    \E token \in Actors, projectId \in ProjectTargets, body \in ProjectUpdates :
        Write(UpdateProjectRoute(token, projectId, body))

WriteDeleteProject ==
    \E token \in Actors, projectId \in ProjectTargets :
        Write(DeleteProjectRoute(token, projectId))

NextRead ==
    \/ ReadTenantUsers
    \/ ReadProjects
    \/ ReadProject
    \/ WriteAddUser
    \/ WriteUpdateUser
    \/ WriteDeleteUser
    \/ WriteCreateProject
    \/ WriteUpdateProject
    \/ WriteDeleteProject

SpecRead == Init /\ [][NextRead]_vars

-----------------------------------------------------------------------------
(* users.routes.js, second registrations (API 8 to API 11) *)

\* API 8: POST /tenants/:tenantId/users
AddUserApi8(req, tenantId, body) ==
    IF req.user.role # "tenant_admin"
    THEN Res(403, "Forbidden")
    ELSE LET tenantRes == TenantRows(tenantId)
             countRes == UsersOfTenant(tenantId)
             seen == [Res(0, "") EXCEPT !.sql = {tenantId},
                                        !.read = Ids(countRes)]
         IN  IF tenantRes = {}
             THEN [seen EXCEPT !.status = 500, !.message = "TypeError"]
             ELSE IF Cardinality(countRes)
                        >= tenants[CHOOSE t \in tenantRes : TRUE].max_users
             THEN [seen EXCEPT !.status = 403,
                               !.message = "Subscription limit reached"]
             ELSE [seen EXCEPT
                     !.users = @ \cup
                        {[id |-> uuidv4(seen.ids + 1), tenant_id |-> tenantId,
                          full_name |-> Coalesce(body, "fullName", None),
                          role |-> Coalesce(body, "role", "user"),
                          is_active |-> TRUE]},
                     !.ids = @ + 1,
                     !.status = 201,
                     !.message = "User created successfully"]

\* API 9: GET /tenants/:tenantId/users
ListUsersApi9(req, tenantId) ==
    LET usersRes == UsersOfTenant(tenantId)
    IN  [Res(200, "") EXCEPT !.sql = {tenantId}, !.read = Ids(usersRes),
                             !.data = {UserColumns(u) : u \in usersRes},
                             !.total = Cardinality(usersRes)]

\* API 10: PUT /users/:userId
UpdateUserApi10(req, userId, body) ==
    LET userRes == {u \in users : SqlEq(u.id, userId)}
    IN  IF userRes = {}
        THEN Res(404, "User not found")
        ELSE LET target == CHOOSE u \in userRes : TRUE
                 seen == [Res(0, "") EXCEPT !.read = {target.id}]
             IN  IF /\ req.user.role # "super_admin"
                    /\ target.tenant_id # req.tenantId
                 THEN [seen EXCEPT !.status = 403, !.message = "Forbidden"]
                 ELSE IF /\ ("role" \in DOMAIN body \/ "isActive" \in DOMAIN body)
                         /\ req.user.role # "tenant_admin"
                 THEN [seen EXCEPT !.status = 403,
                                   !.message = "Not authorized"]
                 ELSE [seen EXCEPT
                        !.users = {IF SqlEq(u.id, userId)
                                   THEN UpdateUserRow(u, body) ELSE u
                                   : u \in users},
                        !.status = 200,
                        !.message = "User updated successfully"]

\* API 11: DELETE /users/:userId.  unassigned is the parameter of its
\* UPDATE tasks SET assigned_to=NULL statement.
DeleteUserApi11(req, userId) ==
    LET userRes == {u \in users : SqlEq(u.id, userId)}
        kept == [unassigned |-> {}]
    IN  IF req.user.role # "tenant_admin"
        THEN Res(403, "Forbidden") @@ kept
        ELSE IF userId = req.user.userId
        THEN Res(403, "Cannot delete yourself") @@ kept
        ELSE IF userRes = {}
        THEN Res(404, "User not found") @@ kept
        ELSE IF (CHOOSE u \in userRes : TRUE).tenant_id # req.tenantId
        THEN [Res(403, "Forbidden") EXCEPT !.read = Ids(userRes)] @@ kept
        ELSE [Res(200, "User deleted successfully") EXCEPT
                !.read = Ids(userRes),
                !.users = {u \in users : ~SqlEq(u.id, userId)}]
             @@ [unassigned |-> {userId}]

-----------------------------------------------------------------------------
(* Dispatch of a request over the router's stack, one function at a time:   *)
(* inflight[1] is the request being routed, with the layer and the function *)
(* of its chain that runs next, and ran, the handlers that executed.         *)

TenantUsersPath == "/tenants/:tenantId/users"

UserPath == "/users/:userId"

Layer(method, path, chain) ==
    [method |-> method, path |-> path, chain |-> chain]

\* router.stack of users.routes.js, in registration order.
Stack ==
    << Layer("POST", TenantUsersPath,
             <<"auth", "requireRole", "tenantGuard", "AddUser">>),
       Layer("GET", TenantUsersPath, <<"auth", "tenantGuard", "ListUsers">>),
       Layer("PUT", UserPath, <<"auth", "tenantGuard", "UpdateUser">>),
       Layer("DELETE", UserPath,
             <<"auth", "requireRole", "tenantGuard", "DeleteUser">>),
       Layer("POST", TenantUsersPath, <<"auth", "tenantGuard", "API8">>),
       Layer("GET", TenantUsersPath, <<"auth", "tenantGuard", "API9">>),
       Layer("PUT", UserPath, <<"auth", "tenantGuard", "API10">>),
       Layer("DELETE", UserPath, <<"auth", "tenantGuard", "API11">>) >>

Middleware == {"auth", "requireRole", "tenantGuard"}

Matches(layer, q) == layer.method = q.method /\ layer.path = q.path

\* The first layer at or after `from` that matches the request; 0 if none.
NextMatch(q, from) ==
    LET found == {i \in DOMAIN Stack : i >= from /\ Matches(Stack[i], q)}
    IN  IF found = {} THEN 0
        ELSE CHOOSE i \in found : \A j \in found : i <= j

\* A handler that calls next() after it ran.
HandlerCallsNext_Always(f) == TRUE

\* The handlers are (req, res) functions: none of them has next to call.
HandlerCallsNext(f) == FALSE

\* The handler f applied to the request q.
Handler(f, req, q) ==
    CASE f = "AddUser" -> AddUser(req, q.tenantId, q.body)
      [] f = "ListUsers" -> ListUsers(req, q.tenantId)
      [] f = "UpdateUser" -> UpdateUser(req, q.target, q.body)
      [] f = "DeleteUser" -> DeleteUser(req, q.target)
      [] f = "API8" -> AddUserApi8(req, q.tenantId, q.body)
      [] f = "API9" -> ListUsersApi9(req, q.tenantId)
      [] f = "API10" -> UpdateUserApi10(req, q.target, q.body)
      [] f = "API11" -> DeleteUserApi11(req, q.target)

HttpRequest(method, path, token, tenantId, target, body) ==
    [method |-> method, path |-> path, token |-> token,
     tenantId |-> tenantId, target |-> target, body |-> body]

\* Express hands the request to the first function of the first layer that
\* matches it.
Accept(q) ==
    /\ inflight[1].pc \in {"idle", "done"}
    /\ nreq < MaxRequests
    /\ nreq' = nreq + 1
    /\ inflight' = [inflight EXCEPT ![1] =
          [pc |-> "route", q |-> q, layer |-> NextMatch(q, 1), fn |-> 1,
           ran |-> << >>, unassigned |-> {}, status |-> 0, message |-> ""]]
    /\ UNCHANGED <<tenants, users, projects, auditLogs, nextId, last>>

AcceptPostTenantUsers ==
    \E token \in Actors, tenantId \in TenantIds, body \in NewUserBodies :
        Accept(HttpRequest("POST", TenantUsersPath, token, tenantId, None,
                           body))

AcceptGetTenantUsers ==
    \E token \in Actors, tenantId \in TenantIds :
        Accept(HttpRequest("GET", TenantUsersPath, token, tenantId, None,
                           EmptyBody))

AcceptPutUser ==
    \E token \in Actors, body \in UserUpdates :
        \E userId \in UserTargets(token) :
            Accept(HttpRequest("PUT", UserPath, token, None, userId, body))

AcceptDeleteUser ==
    \E token \in Actors :
        \E userId \in UserTargets(token) :
            Accept(HttpRequest("DELETE", UserPath, token, None, userId,
                               EmptyBody))

\* The response, once sent, stays as it was sent.
Send(m, status, message) ==
    IF m.status # 0 THEN m
    ELSE [m EXCEPT !.status = status, !.message = message]

\* A middleware function runs: it calls next() or answers with its refusal.
RunMiddleware ==
    LET m == inflight[1]
    IN  /\ m.pc = "route"
        /\ m.layer \in DOMAIN Stack
        /\ Stack[m.layer].chain[m.fn] \in Middleware
        /\ LET f == Stack[m.layer].chain[m.fn]
               req == auth(m.q.token)
               passes == CASE f = "auth" -> TRUE
                           [] f = "requireRole" -> requireRole("tenant_admin", req)
                           [] f = "tenantGuard" -> tenantGuard(req)
               refusal == IF f = "requireRole" THEN RoleDenied
                          ELSE TenantAccessDenied
           IN  inflight' = [inflight EXCEPT ![1] =
                   IF passes THEN [m EXCEPT !.fn = @ + 1]
                   ELSE [Send(m, refusal.status, refusal.message)
                            EXCEPT !.pc = "done"]]
        /\ UNCHANGED <<tenants, users, projects, auditLogs, nextId, nreq, last>>

\* The handler at the end of a chain runs.  A handler that called next()
\* would hand the request to the next layer that matches it.
RunHandler ==
    LET m == inflight[1]
    IN  /\ m.pc = "route"
        /\ m.layer \in DOMAIN Stack
        /\ Stack[m.layer].chain[m.fn] \notin Middleware
        /\ LET f == Stack[m.layer].chain[m.fn]
               r == Handler(f, auth(m.q.token), m.q)
               sent == [Send(m, r.status, r.message) EXCEPT
                          !.ran = Append(@, f),
                          !.unassigned = @ \cup
                              (IF "unassigned" \in DOMAIN r
                               THEN r.unassigned ELSE {})]
               onward == NextMatch(m.q, m.layer + 1)
           IN  /\ users' = r.users
               /\ projects' = r.projects
               /\ auditLogs' = r.audit
               /\ nextId' = r.ids
               /\ inflight' = [inflight EXCEPT ![1] =
                     IF HandlerCallsNext(f) /\ onward # 0
                     THEN [sent EXCEPT !.layer = onward, !.fn = 1]
                     ELSE [sent EXCEPT !.pc = "done"]]
        /\ UNCHANGED <<tenants, nreq, last>>

NextDispatch ==
    \/ AcceptPostTenantUsers
    \/ AcceptGetTenantUsers
    \/ AcceptPutUser
    \/ AcceptDeleteUser
    \/ RunMiddleware
    \/ RunHandler

SpecDispatch == Init /\ [][NextDispatch]_vars

-----------------------------------------------------------------------------
(* Properties *)

\* A step of Spec that serves a request; last' is that request.
Served == nreq' = nreq + 1

\* The actor is not super_admin and its token carries a tenant id.
TenantBound(token) == token.role # "super_admin" /\ token.tenantId # None

Rows(table, id) == {r \in table : r.id = id}

\* C1: for every tenant and resource kind, the number of rows of that kind
\* never exceeds the tenant's ceiling, whatever the interleaving of
\* concurrent creation requests (the counts start at or below the ceilings).
C1_QuotaNeverExceeded ==
    \A t \in TenantIds :
        /\ Cardinality({u \in users : u.tenant_id = t}) <= tenants[t].max_users
        /\ Cardinality({p \in projects : p.tenant_id = t})
              <= tenants[t].max_projects

\* C2: an update or delete by a tenant-bound actor on a user or project of
\* another tenant is denied with 403 and leaves the tables unchanged.
C2_CrossTenantStep ==
    LET r == last'
        table == IF r.op \in {"PUT_user", "DELETE_user"} THEN users
                 ELSE projects
    IN  ( /\ Served
          /\ r.op \in {"PUT_user", "DELETE_user", "PUT_project",
                       "DELETE_project"}
          /\ TenantBound(r.token)
          /\ \E row \in Rows(table, r.target) :
                row.tenant_id \in TenantIds \ {r.token.tenantId} )
        => (r.status = 403 /\ users' = users /\ projects' = projects)

C2_CrossTenantDenied == [][C2_CrossTenantStep]_vars

\* C3: PUT /users/:userId changes a user's role or is_active only when the
\* actor's role is tenant_admin.
C3_PrivilegedStep ==
    (Served /\ last'.op = "PUT_user")
    => \A u \in users : \A v \in users' :
          (u.id = v.id /\ (u.role # v.role \/ u.is_active # v.is_active))
          => last'.token.role = "tenant_admin"

C3_OnlyAdminChangesRole == [][C3_PrivilegedStep]_vars

\* C4: no request by a super_admin is rejected with 403.
C4_SuperAdminAllowed ==
    (last.op # "none" /\ last.token.role = "super_admin")
    => (last.status # 403 /\ ~last.threw)

\* C5 as claimed: a DELETE /users/:userId on the actor's own id is denied
\* with "Cannot delete yourself" whatever the actor's role, and the users
\* table is unchanged.
C5_SelfStep ==
    Served /\ last'.op = "DELETE_user" /\ last'.target = last'.token.userId

C5_SelfDeleteReason ==
    [][C5_SelfStep => ( /\ last'.status = 403
                        /\ last'.message = "Cannot delete yourself"
                        /\ users' = users )]_vars

\* C5 as amended: a DELETE /users/:userId on the actor's own id is denied
\* with 403 and changes neither the users table nor the audit log; the reason
\* is "Cannot delete yourself" when the actor is a tenant_admin whose token
\* carries a tenant id (other actors are stopped by the middleware first).
C5_SelfDeleteDenied ==
    [][C5_SelfStep =>
        ( /\ last'.status = 403
          /\ users' = users
          /\ auditLogs' = auditLogs
          /\ (last'.token.role = "tenant_admin" /\ last'.token.tenantId # None)
                => last'.message = "Cannot delete yourself" )]_vars

C5_Witness ==
    /\ last.op = "DELETE_user"
    /\ last.target = last.token.userId
    /\ last.token.role = "tenant_admin"
    /\ last.message = "Cannot delete yourself"
    /\ Rows(users, last.target) # {}

\* C6: for POST and GET /tenants/:tenantId/users by an actor that is not
\* super_admin: a path tenant id other than the token's gives 403 with no
\* query run and no row written; with the token's own tenant id every query
\* parameter, every row read and every row inserted carries the token's
\* tenant id.
C6_PathStep ==
    LET r == last'
    IN  ( /\ Served
          /\ r.op \in {"POST_users", "GET_users"}
          /\ r.token.role # "super_admin" )
        => IF r.tenantId # r.token.tenantId
           THEN /\ r.status = 403
                /\ r.sql = {} /\ r.read = {} /\ r.data = {}
                /\ users' = users /\ auditLogs' = auditLogs
           ELSE /\ r.sql \subseteq {r.token.tenantId}
                /\ \A u \in users :
                      u.id \in r.read => u.tenant_id = r.token.tenantId
                /\ \A v \in users' \ users : v.tenant_id = r.token.tenantId

C6_TenantPathGuard == [][C6_PathStep]_vars

C6_Witness ==
    /\ last.op = "POST_users"
    /\ last.token.role = "tenant_admin"
    /\ last.token.tenantId \in TenantIds
    /\ last.tenantId # last.token.tenantId
    /\ last.status = 403

\* C7: a project-creation request inserts a project row only when the
\* actor's role is tenant_admin.
C7_CreateStep ==
    (Served /\ last'.op = "POST_project" /\ projects' # projects)
    => last'.token.role = "tenant_admin"

C8_OwnProjectStep ==
    LET r == last'
    IN  ( /\ Served
          /\ r.op \in {"PUT_project", "DELETE_project"}
          /\ r.token.tenantId # None )
        => \A P \in Rows(projects, r.target) :
              P.tenant_id = r.token.tenantId
              => IF r.token.role = "tenant_admin"
                    \/ r.token.userId = P.created_by
                 THEN /\ r.status = 200
                      /\ P \notin projects'
                      /\ \A Q \in projects \ {P} : Q \in projects'
                      /\ Cardinality(Rows(projects', P.id))
                            = IF r.op = "PUT_project" THEN 1 ELSE 0
                 ELSE /\ r.status = 403
                      /\ projects' = projects

C8_AdminOrCreator == [][C8_OwnProjectStep]_vars

C8_Witness ==
    /\ last.op = "DELETE_project"
    /\ last.token.role = "user"
    /\ last.status = 200
    /\ Rows(projects, last.target) = {}

\* C9: when a tenant's count of users (projects) is at or above max_users
\* (max_projects), a creation request by that tenant's tenant_admin, served
\* alone, returns 403, inserts no row and appends no audit entry.
C9_AtCeilingStep ==
    LET r == last'
        t == r.token.tenantId
    IN  ( /\ Served
          /\ r.token.role = "tenant_admin"
          /\ t \in TenantIds
          /\ \/ /\ r.op = "POST_users"
                /\ r.tenantId = t
                /\ Cardinality({u \in users : u.tenant_id = t})
                      >= tenants[t].max_users
             \/ /\ r.op = "POST_project"
                /\ Cardinality({p \in projects : p.tenant_id = t})
                      >= tenants[t].max_projects )
        => ( /\ r.status = 403
             /\ users' = users
             /\ projects' = projects
             /\ auditLogs' = auditLogs )

C9_DeniedAtCeiling == [][C9_AtCeilingStep]_vars

C9_Witness ==
    /\ last.op = "POST_users"
    /\ last.token.role = "tenant_admin"
    /\ last.tenantId = last.token.tenantId
    /\ last.message = "Subscription limit reached"

\* C10: each request adds exactly one audit entry when it created, updated
\* or deleted a row, and none otherwise.
C10_AuditStep ==
    Served =>
        Len(auditLogs') = Len(auditLogs)
            + (IF users' # users \/ projects' # projects THEN 1 ELSE 0)

C10_AuditOnePerChange == [][C10_AuditStep]_vars

\* C11: once a create, update or delete request has committed its row
\* change, the actor eventually receives the success response, whether the
\* audit append completes, fails or never returns.
C11_ResponseAfterCommit ==
    \A s \in Slots :
        (inflight[s].pc = "audit")
            ~> (inflight[s].pc = "done" /\ inflight[s].status \in {200, 201})

\* C12: a request by an actor that is not super_admin and whose token has
\* no tenant id is answered 403 with no query run, no row read or written
\* and no audit entry; tenantGuard turns away no other request.
C12_GuardStep ==
    LET r == last'
    IN  Served =>
          IF r.token.role # "super_admin" /\ r.token.tenantId = None
          THEN /\ r.status = 403
               /\ r.sql = {} /\ r.read = {} /\ r.data = {}
               /\ users' = users /\ projects' = projects
               /\ auditLogs' = auditLogs
          ELSE r.message # "Tenant access denied"

C12_TenantGuard == [][C12_GuardStep]_vars

C12_Witness ==
    /\ last.op = "PUT_user"
    /\ last.token.role = "tenant_admin"
    /\ last.token.tenantId = None
    /\ last.message = "Tenant access denied"
    /\ Rows(users, last.target) # {}

\* C13: a project-creation request by a super_admin, whose token has no
\* tenant id, is neither denied for a limit nor fails for want of a tenant
\* row: the project is created.
C13_SuperAdminCreatesProject ==
    ( /\ last.op = "POST_project"
      /\ last.token.role = "super_admin"
      /\ last.token.tenantId = None )
    => (last.status = 201 /\ ~last.threw)

\* The rows of a table that belong to tenant T.
RowsOf(table, T) == {r \in table : r.tenant_id = T}

\* C14: a read by an actor that is not super_admin and is bound to tenant T
\* (list users, list projects, get one project) gets the same response from
\* every database state that has the same rows with tenant_id = T, and the
\* rows in the response are rows of T, whatever path, id or query the client
\* sends.
C14_TenantReadsIsolated ==
    LET m == inflight[1]
    IN  (m.pc = "read" /\ TenantBound(m.q.token))
        => LET T == m.q.token.tenantId
               table == IF m.q.op = "GET_users" THEN m.users ELSE m.projects
           IN  /\ ( /\ RowsOf(users, T) = RowsOf(m.users, T)
                    /\ RowsOf(projects, T) = RowsOf(m.projects, T) )
                  => Response(ReadRoute(m.q)) = m.response
               /\ \A d \in m.response.data :
                      \E row \in RowsOf(table, T) : row.id = d.id

C14_Witness ==
    LET m == inflight[1]
    IN  /\ m.pc = "read"
        /\ TenantBound(m.q.token)
        /\ m.response.data # {}
        /\ RowsOf(users, m.q.token.tenantId)
              = RowsOf(m.users, m.q.token.tenantId)
        /\ RowsOf(projects, m.q.token.tenantId)
              = RowsOf(m.projects, m.q.token.tenantId)
        /\ (users # m.users \/ projects # m.projects)

\* A layer registered after another layer with the same method and path.
SecondRegistered(i) == \E j \in DOMAIN Stack : j < i /\ Matches(Stack[i], Stack[j])

SecondHandlers ==
    {Stack[i].chain[Len(Stack[i].chain)] :
        i \in {k \in DOMAIN Stack : SecondRegistered(k)}}

\* C15: a request for a method and path registered twice in users.routes.js
\* stays in the first-registered chain until it is answered: no function of
\* a second registration (API 8 to API 11) ever executes, no task is ever
\* unassigned, and the response is the one the first-registered chain sent.
C15_FirstRegisteredAnswers ==
    LET m == inflight[1]
    IN  m.pc \in {"route", "done"}
        => /\ m.layer = NextMatch(m.q, 1)
           /\ ~SecondRegistered(m.layer)
           /\ \A k \in DOMAIN m.ran : m.ran[k] \notin SecondHandlers
           /\ Len(m.ran) <= 1
           /\ m.unassigned = {}
           /\ m.pc = "done" => m.status # 0

\* A tenant admin updated a user of another tenant: the first registration
\* answered 200 where API 10 refuses the request.
C15_Witness ==
    LET m == inflight[1]
    IN  /\ m.pc = "done"
        /\ m.q.method = "PUT"
        /\ m.ran = <<"UpdateUser">>
        /\ m.status = 200
        /\ TenantBound(m.q.token)
        /\ UpdateUserApi10(auth(m.q.token), m.q.target, m.q.body).status = 403
        /\ \E i \in DOMAIN Stack : SecondRegistered(i) /\ Matches(Stack[i], m.q)

====
